---- MODULE Spec2Model ----
(***************************************************************************)
(* GDBController of gdb_mcp_server.py: the session state, the background   *)
(* reader thread, the command correlator (_send_command), the result       *)
(* interpreter (_parse_result) and the facade operations, run by several   *)
(* caller threads against a GDB/MI subprocess.                             *)
(***************************************************************************)
EXTENDS Integers, Sequences, FiniteSets, TLC

\* ---------------------------------------------------------------- bounds
\* Facade calls begun in one behaviour.
MaxCalls == 3
\* Subprocesses spawned in one behaviour.
MaxProcs == 2
\* Asynchronous lines (*stopped, =breakpoint-modified) GDB emits in one behaviour.
MaxEvents == 1
\* The lines of a list given to _parse_result and the fields of a result record.
MaxLines == 2
MaxFields == 2

\* Caller threads of the facade.
Threads == {1, 2}
\* Subprocess handles (Popen objects), in spawn order.
Procs == 1..MaxProcs

\* Python's None, for the optional fields.
None == -1
\* The cap of read_memory.
MaxReadSize == 4096

\* ------------------------------------------------------- inputs of calls
Pids == {7}
\* An address is a string; modelled as its sequence of tokens, "*" being the
\* absolute-address marker.
Addresses == {<<"0x401000">>, <<"*", "0x401000">>}
Sizes == {16, MaxReadSize + 1}
BpNumbers == {1, 2}
\* The breakpoints GDB's asynchronous lines are about.
EventBreakpoints == {1}

\* ----------------------------------------------------------------- lines
\* A line GDB writes: its first character (mark), the word after it, the call
\* whose command it answers (cid, 0 for none), the number="N" field (None when
\* the line has none), for *stopped the reason="..." and bkptno="N" fields,
\* the id of the asynchronous event (ev, 0 for none), and for a result record
\* its key="value" fields in the order they stand in the line (fields).
Line(mark, word, cid, num, reason, bkptno, ev) ==
    [mark |-> mark, word |-> word, cid |-> cid, num |-> num, reason |-> reason,
     bkptno |-> bkptno, ev |-> ev, fields |-> <<>>]
\* A result record of GDB: ^error carries a msg field, a record of a breakpoint
\* made carries its number.
ResultLine(word, cid, num) ==
    [Line("^", word, cid, num, "", None, 0) EXCEPT
        !.fields = IF word = "error" THEN <<<<"msg", "error">>>>
                   ELSE IF num # None THEN <<<<"number", num>>>> ELSE <<>>]
NotifyLine(num, ev) == Line("=", "breakpoint-modified", 0, num, "", None, ev)
StoppedLine(reason, bkptno, ev) == Line("*", "stopped", 0, None, reason, bkptno, ev)

\* line.startswith("^")
IsResult(line) == line.mark = "^"
\* line.startswith("*stopped")
IsStopped(line) == line.mark = "*" /\ line.word = "stopped"

VARIABLES
    process,        \* self.process: None or the handle of the subprocess
    running,        \* self.running
    output_queue,   \* self.output_queue
    breakpoints,    \* self.breakpoints: bp_num -> info
    bp_hits,        \* self.bp_hits
    attached_pid,   \* self.attached_pid
    lock,           \* self.lock: None or the thread holding it
    th,             \* each caller thread: its position (pc), the facade call it is in
                    \* (call), _send_command's accumulator (lines), get_hits' copy
                    \* (hits), whether the call wrote to a subprocess (wrote), the
                    \* dict get_status is building (status), the tuple _parse_result
                    \* gave it (result) and what its last call
                    \* returned or raised (ret)
    ncalls,         \* facade calls begun
    gdb,            \* each subprocess: state, unread stdin, unread stdout, breakpoints made
    reader,         \* the reader thread launched for each subprocess
    nprocs,         \* subprocesses spawned
    nevents,        \* asynchronous lines emitted
    clock,          \* time.time(), as the number of hits appended
    delivered,      \* timestamps of the hits some get_hits has returned
    discarded,      \* timestamps of the hits stop() has cleared
    drained_at,     \* the clock when get_hits last emptied the hit log
    arrived         \* the lines queued since the collection in progress emptied the queue

vars == <<process, running, output_queue, breakpoints, bp_hits, attached_pid, lock,
          th, ncalls, gdb, reader, nprocs, nevents, clock,
          delivered, discarded, drained_at, arrived>>

session == <<process, running, output_queue, breakpoints, bp_hits, attached_pid, lock>>
env == <<gdb, reader, nprocs, nevents, clock>>
hist == <<delivered, discarded, drained_at, arrived>>

NoCall == [id |-> 0, name |-> "none", pid |-> None, address |-> <<>>, hardware |-> FALSE,
           number |-> None, size |-> 0, path |-> "", peers |-> {}]
NoRet == [call |-> NoCall, tag |-> "none", msg |-> "", data |-> <<>>]
\* The dict get_status builds, before any of its fields is read.
NoStatus == [running |-> FALSE, attached_pid |-> None, breakpoints |-> {}, pending_hits |-> 0]
\* The tuple _parse_result returns, before it is called.
NoResult == [success |-> FALSE, msg |-> "", data |-> {}, literal |-> {}]
\* A thread that is in no call.
Idle == [pc |-> "idle", call |-> NoCall, lines |-> <<>>, hits |-> <<>>, wrote |-> FALSE,
         status |-> NoStatus, result |-> NoResult, ret |-> NoRet]

\* GDBController.__init__
Init ==
    /\ process = None
    /\ running = FALSE
    /\ output_queue = <<>>
    /\ breakpoints = <<>>
    /\ bp_hits = <<>>
    /\ attached_pid = None
    /\ lock = None
    /\ th = [t \in Threads |-> Idle]
    /\ ncalls = 0
    /\ gdb = [p \in Procs |-> [state |-> "unborn", stdin |-> <<>>, stdout |-> <<>>, nbp |-> 0]]
    /\ reader = [p \in Procs |-> [pc |-> "off", target |-> None]]
    /\ nprocs = 0
    /\ nevents = 0
    /\ clock = 0
    /\ delivered = {}
    /\ discarded = {}
    /\ drained_at = 0
    /\ arrived = <<>>

\* ------------------------------------------------------ pure functions
\* _parse_stopped's record for a line, stamped with the time of the parse.
HitInfo(line, now) ==
    [raw |-> line, timestamp |-> now, bkptno |-> line.bkptno]

\* ParseStopped that drops the record of a line with no bkptno field.
ParseStopped_NeedsNumber(log, line, now) ==
    IF line.reason = "breakpoint-hit" /\ line.bkptno # None
    THEN Append(log, HitInfo(line, now)) ELSE log

\* _parse_stopped: the hit log after the line was parsed.
ParseStopped(log, line, now) ==
    IF line.reason = "breakpoint-hit" THEN Append(log, HitInfo(line, now)) ELSE log

\* The least member of a set of indices, 0 when it is empty.
FirstOf(S) == IF S = {} THEN 0 ELSE CHOOSE i \in S : \A j \in S : i <= j

\* data[key] = value for each field in line-scan order, starting from data.
RECURSIVE ScanFields(_, _)
ScanFields(fields, data) ==
    IF fields = <<>> THEN data
    ELSE ScanFields(Tail(fields),
                    {pair \in data : pair[1] # Head(fields)[1]} \cup {Head(fields)})

\* The key="value" pairs _parse_result extracts from a ^done record.
ResultData(line) == ScanFields(line.fields, {})

\* The message of an ^error record: its first msg field, "Unknown error" without one.
ErrorMessage(line) ==
    LET i == FirstOf({k \in 1..Len(line.fields) : line.fields[k][1] = "msg"}) IN
    IF i = 0 THEN "Unknown error" ELSE line.fields[i][2]

\* What _parse_result returns: success, message and data; for the message
\* "Unknown result: <line>" the line is kept in literal.
Result(success, msg, data, literal) ==
    [success |-> success, msg |-> msg, data |-> data, literal |-> literal]

\* ParseResult that takes the absence of a result record for success.
ParseResult_SilenceIsDone(ls) ==
    LET i == FirstOf({k \in 1..Len(ls) : IsResult(ls[k])}) IN
    IF i = 0 THEN Result(TRUE, "OK", {}, {})
    ELSE IF ls[i].word = "done" THEN Result(TRUE, "OK", ResultData(ls[i]), {})
    ELSE IF ls[i].word = "error" THEN Result(FALSE, ErrorMessage(ls[i]), {}, {})
    ELSE IF ls[i].word = "running" THEN Result(TRUE, "Running", {}, {})
    ELSE Result(FALSE, "Unknown result", {}, {ls[i]})

\* ParseResult that classifies by the last result record of the lines.
ParseResult_LastResult(ls) ==
    LET R == {k \in 1..Len(ls) : IsResult(ls[k])}
        i == IF R = {} THEN 0 ELSE CHOOSE k \in R : \A j \in R : j <= k
    IN
    IF i = 0 THEN Result(FALSE, "No result received", {}, {})
    ELSE IF ls[i].word = "done" THEN Result(TRUE, "OK", ResultData(ls[i]), {})
    ELSE IF ls[i].word = "error" THEN Result(FALSE, ErrorMessage(ls[i]), {}, {})
    ELSE IF ls[i].word = "running" THEN Result(TRUE, "Running", {}, {})
    ELSE Result(FALSE, "Unknown result", {}, {ls[i]})

\* _parse_result: (success, message, data) of the lines of one exchange.
ParseResult(ls) ==
    LET i == FirstOf({k \in 1..Len(ls) : IsResult(ls[k])}) IN
    IF i = 0 THEN Result(FALSE, "No result received", {}, {})
    ELSE IF ls[i].word = "done" THEN Result(TRUE, "OK", ResultData(ls[i]), {})
    ELSE IF ls[i].word = "error" THEN Result(FALSE, ErrorMessage(ls[i]), {}, {})
    ELSE IF ls[i].word = "running" THEN Result(TRUE, "Running", {}, {})
    ELSE Result(FALSE, "Unknown result", {}, {ls[i]})

HasNumber(line) == line.num # None

\* set_breakpoint's scan of the lines: the first number="N" of any line, None
\* when no line has one.
ScanNumber(ls) ==
    LET i == FirstOf({k \in 1..Len(ls) : HasNumber(ls[k])}) IN IF i = 0 THEN None ELSE ls[i].num

\* set_breakpoint's normalisation: the address with the marker before it, unless
\* it starts with the marker.
NormalizeAddress(address) ==
    IF Len(address) > 0 /\ Head(address) = "*" THEN address ELSE <<"*">> \o address

\* dict.pop(k, None) and d[k] = v
DictPop(d, k) == [n \in DOMAIN d \ {k} |-> d[n]]
DictPut(d, k, v) == [n \in DOMAIN d \cup {k} |-> IF n = k THEN v ELSE d[n]]

\* ------------------------------------------------------- the subprocess
Command(cid, verb, hw, arg) == [cid |-> cid, verb |-> verb, hw |-> hw, arg |-> arg]
ExitCommand == Command(0, "-gdb-exit", FALSE, <<>>)

\* The result records GDB may end a command with.
ReplyWords(cmd) ==
    CASE cmd.verb = "-exec-continue" -> {"running", "error"}
      [] cmd.verb = "raw" -> {"done", "error", "connected"}
      [] OTHER -> {"done", "error"}

\* GDB answers the oldest unanswered command with a result record.
GdbReply(p) ==
    /\ gdb[p].state = "alive"
    /\ gdb[p].stdin # <<>>
    /\ LET cmd == Head(gdb[p].stdin) IN
       /\ cmd.verb # "-gdb-exit"
       /\ \E word \in ReplyWords(cmd) :
            LET made == cmd.verb = "-break-insert" /\ word = "done"
                num == IF made THEN gdb[p].nbp + 1 ELSE None
            IN gdb' = [gdb EXCEPT ![p].stdin = Tail(@),
                                  ![p].stdout = Append(@, ResultLine(word, cmd.cid, num)),
                                  ![p].nbp = IF made THEN @ + 1 ELSE @]
    /\ UNCHANGED <<session, th, ncalls, reader, nprocs, nevents, clock, hist>>

\* GDB obeys -gdb-exit: it writes ^exit and exits.
GdbExit(p) ==
    /\ gdb[p].state = "alive"
    /\ gdb[p].stdin # <<>>
    /\ Head(gdb[p].stdin).verb = "-gdb-exit"
    /\ gdb' = [gdb EXCEPT ![p].stdin = Tail(@),
                          ![p].stdout = Append(@, ResultLine("exit", 0, None)),
                          ![p].state = "dead"]
    /\ UNCHANGED <<session, th, ncalls, reader, nprocs, nevents, clock, hist>>

\* The asynchronous lines GDB may write for its nth event.
\* (Breakpoints may also exist in GDB that no set_breakpoint call made.)
StoppedLines(n) ==
    {StoppedLine("signal-received", None, n), StoppedLine("breakpoint-hit", None, n)}
    \cup {StoppedLine("breakpoint-hit", b, n) : b \in EventBreakpoints}

\* GDB writes an asynchronous line.
GdbEmit(p, line) ==
    /\ gdb[p].state = "alive"
    /\ nevents < MaxEvents
    /\ nevents' = nevents + 1
    /\ gdb' = [gdb EXCEPT ![p].stdout = Append(@, line)]
    /\ UNCHANGED <<session, th, ncalls, reader, nprocs, clock, hist>>

\* The inferior stopped: GDB writes *stopped.
GdbStopped(p) == \E line \in StoppedLines(nevents + 1) : GdbEmit(p, line)

\* A breakpoint changed (its hit count, say): GDB writes =breakpoint-modified.
GdbNotify(p) == \E b \in EventBreakpoints : GdbEmit(p, NotifyLine(b, nevents + 1))

\* GDB dies on its own (a crash, a kill from outside): its pipes close.
GdbDie(p) ==
    /\ gdb[p].state = "alive"
    /\ gdb' = [gdb EXCEPT ![p].state = "dead"]
    /\ UNCHANGED <<session, th, ncalls, reader, nprocs, nevents, clock, hist>>

\* ----------------------------------------------------- the reader thread
\* _reader_loop's loop condition; self.process is read again for each readline.
ReaderCheck(p) ==
    /\ reader[p].pc = "check"
    /\ reader' = [reader EXCEPT ![p] =
                    IF running /\ process # None
                    THEN [pc |-> "read", target |-> process]
                    ELSE [pc |-> "done", target |-> None]]
    /\ UNCHANGED <<session, th, ncalls, gdb, nprocs, nevents, clock, hist>>

\* self.output_queue.put(line)
ReaderPut(queue, line) == Append(queue, line)

\* readline() returned a line: it is queued, and parsed when it is *stopped.
ReaderRead(p) ==
    /\ reader[p].pc = "read"
    /\ LET q == reader[p].target IN
       /\ gdb[q].stdout # <<>>
       /\ LET line == Head(gdb[q].stdout)
              hit == IsStopped(line) /\ line.reason = "breakpoint-hit"
          IN /\ gdb' = [gdb EXCEPT ![q].stdout = Tail(@)]
             /\ output_queue' = ReaderPut(output_queue, line)
             /\ bp_hits' = IF IsStopped(line)
                           THEN ParseStopped(bp_hits, line, clock + 1) ELSE bp_hits
             /\ clock' = IF hit THEN clock + 1 ELSE clock
             /\ arrived' = IF \E t \in Threads : th[t].pc = "send_collect"
                            THEN Append(arrived, line) ELSE arrived
    /\ reader' = [reader EXCEPT ![p].pc = "check"]
    /\ UNCHANGED <<process, running, breakpoints, attached_pid, lock,
                   th, ncalls, nprocs, nevents, delivered, discarded, drained_at>>

\* readline() returned nothing (the subprocess closed its output): the loop ends.
ReaderEof(p) ==
    /\ reader[p].pc = "read"
    /\ gdb[reader[p].target].stdout = <<>>
    /\ gdb[reader[p].target].state = "dead"
    /\ reader' = [reader EXCEPT ![p] = [pc |-> "done", target |-> None]]
    /\ UNCHANGED <<session, th, ncalls, gdb, nprocs, nevents, clock, hist>>

\* ------------------------------------------------------ the facade calls
Ok(status, data) == [call |-> NoCall, tag |-> "ok", msg |-> status, data |-> data]
Err(msg) == [call |-> NoCall, tag |-> "error", msg |-> msg, data |-> <<>>]
\* An exception that leaves the facade operation.
Fault(exc) == [call |-> NoCall, tag |-> "fault", msg |-> exc, data |-> <<>>]

NotStarted == Err("GDB not started")
NotRunning == Err("GDB not running")
AlreadyRunning == Err("GDB already running")
NotAttached == Err("Not attached to any process")
SizeLimitExceeded == Err("Size exceeds maximum (4096 bytes)")

\* Python's truth of an Optional[int]: None and 0 are false.
Truthy(x) == x # None /\ x # 0

\* A thread that is at `label` of call c, and one that has returned r from it.
At(c, label) == [Idle EXCEPT !.pc = label, !.call = c]
Returned(c, r) == [Idle EXCEPT !.ret = [r EXCEPT !.call = [c EXCEPT !.id = 0]]]

Return(t, r) == th' = [th EXCEPT ![t] = Returned(th[t].call, r)]
Goto(t, label) == th' = [th EXCEPT ![t].pc = label]

\* The callers are a pool of threads: a call is run by the first free one.
Free(t) == th[t].pc = "idle" /\ \A u \in Threads : u < t => th[u].pc # "idle"

\* The threads that are in a call.
Busy == {u \in Threads : th[u].pc # "idle"}

\* call.peers: the calls that ran while this one did.
WithPeers(thread, ids) ==
    IF thread.pc = "idle"
    THEN [thread EXCEPT !.ret.call.peers = @ \cup ids]
    ELSE [thread EXCEPT !.call.peers = @ \cup ids]

\* Thread t begins a facade call and runs its first statement, after which it
\* is as `first` says.
Enter(t, first) ==
    /\ Free(t)
    /\ ncalls < MaxCalls
    /\ ncalls' = ncalls + 1
    /\ th' = [u \in Threads |->
                IF u = t THEN WithPeers(first, {th[v].call.id : v \in Busy})
                ELSE IF u \in Busy THEN WithPeers(th[u], {ncalls + 1})
                ELSE th[u]]

NewCall(name) == [NoCall EXCEPT !.id = ncalls + 1, !.name = name]

\* The command text a call hands to _send_command.
CommandOf(c) ==
    CASE c.name = "attach" -> Command(c.id, "-target-attach", FALSE, c.pid)
      [] c.name = "detach" -> Command(c.id, "-target-detach", FALSE, <<>>)
      [] c.name = "set_breakpoint" ->
            Command(c.id, "-break-insert", c.hardware, NormalizeAddress(c.address))
      [] c.name = "delete_breakpoint" -> Command(c.id, "-break-delete", FALSE, c.number)
      [] c.name = "continue_exec" -> Command(c.id, "-exec-continue", FALSE, <<>>)
      [] c.name = "interrupt" -> Command(c.id, "-exec-interrupt", FALSE, <<>>)
      [] c.name = "read_register" -> Command(c.id, "-data-evaluate-expression", FALSE, <<>>)
      [] c.name = "read_memory" -> Command(c.id, "-data-read-memory-bytes", FALSE, c.size)
      [] OTHER -> Command(c.id, "raw", FALSE, <<>>)

\* ---- start
\* StartCheck without its guard: start() spawns whatever self.process is.
StartCheck_NoGuard(t) ==
    /\ Enter(t, At(NewCall("start"), "start_spawn"))
    /\ UNCHANGED <<session, env, hist>>

StartCheck(t) ==
    /\ Enter(t, IF process # None
                THEN Returned(NewCall("start"), AlreadyRunning)
                ELSE At(NewCall("start"), "start_spawn"))
    /\ UNCHANGED <<session, env, hist>>

\* Popen succeeds: the handle is stored, the reader thread is started.
StartSpawn(t) ==
    /\ th[t].pc = "start_spawn"
    /\ nprocs < MaxProcs
    /\ nprocs' = nprocs + 1
    /\ process' = nprocs + 1
    /\ running' = TRUE
    /\ gdb' = [gdb EXCEPT ![nprocs + 1].state = "alive"]
    /\ reader' = [reader EXCEPT ![nprocs + 1] = [pc |-> "check", target |-> None]]
    /\ Goto(t, "start_drain")
    /\ UNCHANGED <<output_queue, breakpoints, bp_hits, attached_pid, lock,
                   ncalls, nevents, clock, hist>>

\* Popen raises (no such program): the exception becomes the error payload.
StartFail(t) ==
    /\ th[t].pc = "start_spawn"
    /\ Return(t, Err("Popen failed"))
    /\ UNCHANGED <<session, env, hist, ncalls>>

\* After the settling delay: the queue is drained and the pid returned.
StartDrain(t) ==
    /\ th[t].pc = "start_drain"
    /\ output_queue' = <<>>
    /\ Return(t, IF process = None THEN Err("AttributeError") ELSE Ok("started", process))
    /\ UNCHANGED <<process, running, breakpoints, bp_hits, attached_pid, lock,
                   env, hist, ncalls>>

\* ---- stop
StopCheck(t) ==
    /\ Enter(t, IF process = None
                THEN Returned(NewCall("stop"), NotRunning)
                ELSE At(NewCall("stop"), "stop_write"))
    /\ running' = IF process = None THEN running ELSE FALSE
    /\ UNCHANGED <<process, output_queue, breakpoints, bp_hits, attached_pid, lock,
                   env, hist>>

\* stdin.write(b"-gdb-exit\n") and flush; on an exception, self.process.kill().
StopWrite(t) ==
    /\ th[t].pc = "stop_write"
    /\ IF process = None
       THEN /\ Return(t, Fault("AttributeError"))
            /\ UNCHANGED gdb
       ELSE IF gdb[process].state = "dead"
       THEN /\ th' = [th EXCEPT ![t].pc = "stop_reset", ![t].call.path = "undelivered"]
            /\ UNCHANGED gdb
       ELSE /\ th' = [th EXCEPT ![t].pc = "stop_wait", ![t].wrote = TRUE]
            /\ gdb' = [gdb EXCEPT ![process].stdin = Append(@, ExitCommand)]
    /\ UNCHANGED <<session, reader, nprocs, nevents, clock, hist, ncalls>>

\* process.wait(timeout=5) returns: the subprocess has exited.
StopWaited(t) ==
    /\ th[t].pc = "stop_wait"
    /\ IF process = None
       THEN Return(t, Fault("AttributeError"))
       ELSE /\ gdb[process].state = "dead"
            /\ th' = [th EXCEPT ![t].pc = "stop_reset", ![t].call.path = "graceful"]
    /\ UNCHANGED <<session, env, hist, ncalls>>

\* process.wait(timeout=5) raises TimeoutExpired: self.process.kill().
StopKill(t) ==
    /\ th[t].pc = "stop_wait"
    /\ process # None
    /\ gdb[process].state = "alive"
    /\ gdb' = [gdb EXCEPT ![process].state = "dead"]
    /\ th' = [th EXCEPT ![t].pc = "stop_reset", ![t].call.path = "forced"]
    /\ UNCHANGED <<session, reader, nprocs, nevents, clock, hist, ncalls>>

Timestamps(log) == {log[i].timestamp : i \in 1..Len(log)}

\* self.process = None
StopReset(t) ==
    /\ th[t].pc = "stop_reset"
    /\ process' = None
    /\ Goto(t, "stop_reset_attached")
    /\ UNCHANGED <<running, output_queue, breakpoints, bp_hits, attached_pid, lock,
                   env, hist, ncalls>>

\* self.attached_pid = None
StopResetAttached(t) ==
    /\ th[t].pc = "stop_reset_attached"
    /\ attached_pid' = None
    /\ Goto(t, "stop_reset_breakpoints")
    /\ UNCHANGED <<process, running, output_queue, breakpoints, bp_hits, lock,
                   env, hist, ncalls>>

\* self.breakpoints = {}
StopResetBreakpoints(t) ==
    /\ th[t].pc = "stop_reset_breakpoints"
    /\ breakpoints' = <<>>
    /\ Goto(t, "stop_reset_hits")
    /\ UNCHANGED <<process, running, output_queue, bp_hits, attached_pid, lock,
                   env, hist, ncalls>>

\* self.bp_hits = []
StopResetHits(t) ==
    /\ th[t].pc = "stop_reset_hits"
    /\ bp_hits' = <<>>
    /\ discarded' = discarded \cup Timestamps(bp_hits)
    /\ Goto(t, "stop_return")
    /\ UNCHANGED <<process, running, output_queue, breakpoints, attached_pid, lock,
                   env, delivered, drained_at, arrived, ncalls>>

\* return {"status": "stopped"}
StopReturn(t) ==
    /\ th[t].pc = "stop_return"
    /\ Return(t, Ok("stopped", <<>>))
    /\ UNCHANGED <<session, env, hist, ncalls>>

\* ---- _send_command
\* SendEnter with a lock that does not exclude: a thread enters while another holds it.
SendEnter_NoExclusion(t) ==
    /\ th[t].pc = "send"
    /\ IF process = None
       THEN Return(t, Fault("RuntimeError")) /\ UNCHANGED lock
       ELSE lock' = t /\ Goto(t, "send_write")
    /\ UNCHANGED <<process, running, output_queue, breakpoints, bp_hits, attached_pid,
                   env, hist, ncalls>>

\* The liveness check of _send_command, then the acquisition of self.lock.
SendEnter(t) ==
    /\ th[t].pc = "send"
    /\ IF process = None
       THEN Return(t, Fault("RuntimeError")) /\ UNCHANGED lock
       ELSE lock = None /\ lock' = t /\ Goto(t, "send_write")
    /\ UNCHANGED <<process, running, output_queue, breakpoints, bp_hits, attached_pid,
                   env, hist, ncalls>>

\* Under the lock: the queue is emptied, the command written and flushed. An
\* exception of the write leaves the with-block, which releases the lock.
SendWrite(t) ==
    /\ th[t].pc = "send_write"
    /\ output_queue' = <<>>
    /\ IF process = None \/ gdb[process].state = "dead"
       THEN /\ Return(t, Fault(IF process = None THEN "AttributeError" ELSE "BrokenPipeError"))
            /\ lock' = None
            /\ UNCHANGED gdb
       ELSE /\ th' = [th EXCEPT ![t].pc = "send_collect", ![t].wrote = TRUE]
            /\ gdb' = [gdb EXCEPT ![process].stdin = Append(@, CommandOf(th[t].call))]
            /\ UNCHANGED lock
    /\ arrived' = <<>>
    /\ UNCHANGED <<process, running, breakpoints, bp_hits, attached_pid,
                   reader, nprocs, nevents, clock, delivered, discarded, drained_at, ncalls>>

\* One line is taken from the queue; a result record ends the wait.
SendCollect(t) ==
    /\ th[t].pc = "send_collect"
    /\ output_queue # <<>>
    /\ output_queue' = Tail(output_queue)
    /\ th' = [th EXCEPT ![t].lines = Append(@, Head(output_queue)),
                        ![t].pc = IF IsResult(Head(output_queue)) THEN "finish" ELSE @]
    /\ lock' = IF IsResult(Head(output_queue)) THEN None ELSE lock
    /\ arrived' = IF IsResult(Head(output_queue)) THEN <<>> ELSE arrived
    /\ UNCHANGED <<process, running, breakpoints, bp_hits, attached_pid,
                   env, delivered, discarded, drained_at, ncalls>>

\* SendTimeout that returns without releasing the lock.
SendTimeout_KeepsLock(t) ==
    /\ th[t].pc = "send_collect"
    /\ Goto(t, "finish")
    /\ arrived' = <<>>
    /\ UNCHANGED <<process, running, output_queue, breakpoints, bp_hits, attached_pid,
                   lock, env, delivered, discarded, drained_at, ncalls>>

\* self.timeout has elapsed: the wait ends with the lines collected so far.
SendTimeout(t) ==
    /\ th[t].pc = "send_collect"
    /\ lock' = None
    /\ Goto(t, "finish")
    /\ arrived' = <<>>
    /\ UNCHANGED <<process, running, output_queue, breakpoints, bp_hits, attached_pid,
                   env, delivered, discarded, drained_at, ncalls>>

\* ---- the operations that send one command
\* Dispatch without the liveness check: _send_command is called at once.
Dispatch_NoCheck(t, c) ==
    /\ Enter(t, At(c, "send"))
    /\ UNCHANGED <<session, env, hist>>

\* The liveness check that opens the operation, then _send_command.
Dispatch(t, c) ==
    /\ Enter(t, IF process = None THEN Returned(c, NotStarted) ELSE At(c, "send"))
    /\ UNCHANGED <<session, env, hist>>

Attach(t) ==
    \E pid \in Pids : Dispatch(t, [NewCall("attach") EXCEPT !.pid = pid])

\* AttachFinish that records the pid whatever the result.
AttachFinish_Always(t) ==
    /\ th[t].pc = "finish"
    /\ th[t].call.name = "attach"
    /\ attached_pid' = th[t].call.pid
    /\ Return(t, IF ParseResult(th[t].lines).success
                 THEN Ok("attached", th[t].call.pid)
                 ELSE Err(ParseResult(th[t].lines).msg))
    /\ UNCHANGED <<process, running, output_queue, breakpoints, bp_hits, lock,
                   env, hist, ncalls>>

AttachFinish(t) ==
    /\ th[t].pc = "finish"
    /\ th[t].call.name = "attach"
    /\ IF ParseResult(th[t].lines).success
       THEN /\ attached_pid' = th[t].call.pid
            /\ Return(t, Ok("attached", th[t].call.pid))
       ELSE /\ Return(t, Err(ParseResult(th[t].lines).msg))
            /\ UNCHANGED attached_pid
    /\ UNCHANGED <<process, running, output_queue, breakpoints, bp_hits, lock,
                   env, hist, ncalls>>

Detach(t) ==
    /\ Enter(t, IF process = None THEN Returned(NewCall("detach"), NotStarted)
                ELSE IF ~Truthy(attached_pid) THEN Returned(NewCall("detach"), NotAttached)
                ELSE At(NewCall("detach"), "send"))
    /\ UNCHANGED <<session, env, hist>>

DetachFinish(t) ==
    /\ th[t].pc = "finish"
    /\ th[t].call.name = "detach"
    /\ IF ParseResult(th[t].lines).success
       THEN /\ attached_pid' = None
            /\ Return(t, Ok("detached", <<>>))
       ELSE /\ Return(t, Err(ParseResult(th[t].lines).msg))
            /\ UNCHANGED attached_pid
    /\ UNCHANGED <<process, running, output_queue, breakpoints, bp_hits, lock,
                   env, hist, ncalls>>

\* The (address, hardware) pairs set_breakpoint is called with.
BreakpointArgs == {<<<<"0x401000">>, FALSE>>, <<<<"*", "0x401000">>, TRUE>>}

SetBreakpoint(t) ==
    \E a \in BreakpointArgs :
        Dispatch(t, [NewCall("set_breakpoint") EXCEPT !.address = a[1], !.hardware = a[2]])

\* The entry set_breakpoint stores.
BreakpointInfo(c, bp_num) ==
    [address |-> c.address, hardware |-> c.hardware, number |-> bp_num]

SetBreakpointFinish(t) ==
    /\ th[t].pc = "finish"
    /\ th[t].call.name = "set_breakpoint"
    /\ LET c == th[t].call
           res == ParseResult(th[t].lines)
           bp_num == ScanNumber(th[t].lines)
       IN IF res.success
          THEN IF Truthy(bp_num)
               THEN /\ breakpoints' = DictPut(breakpoints, bp_num, BreakpointInfo(c, bp_num))
                    /\ Return(t, Ok("breakpoint_set",
                                    [number |-> bp_num, address |-> c.address]))
               ELSE /\ Return(t, Ok("breakpoint_set", [address |-> c.address]))
                    /\ UNCHANGED breakpoints
          ELSE /\ Return(t, Err(res.msg))
               /\ UNCHANGED breakpoints
    /\ UNCHANGED <<process, running, output_queue, bp_hits, attached_pid, lock,
                   env, hist, ncalls>>

DeleteBreakpoint(t) ==
    \E number \in BpNumbers :
        Dispatch(t, [NewCall("delete_breakpoint") EXCEPT !.number = number])

\* DeleteBreakpointFinish that drops the entry before looking at the result.
DeleteBreakpointFinish_Always(t) ==
    /\ th[t].pc = "finish"
    /\ th[t].call.name = "delete_breakpoint"
    /\ breakpoints' = DictPop(breakpoints, th[t].call.number)
    /\ Return(t, IF ParseResult(th[t].lines).success
                 THEN Ok("breakpoint_deleted", th[t].call.number)
                 ELSE Err(ParseResult(th[t].lines).msg))
    /\ UNCHANGED <<process, running, output_queue, bp_hits, attached_pid, lock,
                   env, hist, ncalls>>

DeleteBreakpointFinish(t) ==
    /\ th[t].pc = "finish"
    /\ th[t].call.name = "delete_breakpoint"
    /\ IF ParseResult(th[t].lines).success
       THEN /\ breakpoints' = DictPop(breakpoints, th[t].call.number)
            /\ Return(t, Ok("breakpoint_deleted", th[t].call.number))
       ELSE /\ Return(t, Err(ParseResult(th[t].lines).msg))
            /\ UNCHANGED breakpoints
    /\ UNCHANGED <<process, running, output_queue, bp_hits, attached_pid, lock,
                   env, hist, ncalls>>

\* continue_exec, interrupt, read_register: one command, no session state.
PlainOps == {"continue_exec", "interrupt", "read_register"}

PlainStatus(name) ==
    CASE name = "continue_exec" -> "running"
      [] name = "interrupt" -> "interrupted"
      [] OTHER -> "register"

Plain(t) ==
    \E name \in PlainOps : Dispatch(t, NewCall(name))

PlainFinish(t) ==
    /\ th[t].pc = "finish"
    /\ th[t].call.name \in PlainOps
    /\ Return(t, IF ParseResult(th[t].lines).success
                 THEN Ok(PlainStatus(th[t].call.name), <<>>)
                 ELSE Err(ParseResult(th[t].lines).msg))
    /\ UNCHANGED <<session, env, hist, ncalls>>

\* ReadMemoryFirst without the cap: a read of any size is sent.
ReadMemoryFirst_NoCap(c) ==
    IF process = None THEN Returned(c, NotStarted) ELSE At(c, "send")

\* read_memory's two checks.
ReadMemoryFirst(c) ==
    IF process = None THEN Returned(c, NotStarted)
    ELSE IF c.size > MaxReadSize THEN Returned(c, SizeLimitExceeded)
    ELSE At(c, "send")

ReadMemory(t) ==
    \E size \in Sizes :
        /\ Enter(t, ReadMemoryFirst([NewCall("read_memory") EXCEPT !.size = size]))
        /\ UNCHANGED <<session, env, hist>>

ReadMemoryFinish(t) ==
    /\ th[t].pc = "finish"
    /\ th[t].call.name = "read_memory"
    /\ Return(t, IF ParseResult(th[t].lines).success
                 THEN Ok("memory", th[t].call.size)
                 ELSE Err(ParseResult(th[t].lines).msg))
    /\ UNCHANGED <<session, env, hist, ncalls>>

RawCommand(t) == Dispatch(t, NewCall("raw_command"))

RawCommandFinish(t) ==
    /\ th[t].pc = "finish"
    /\ th[t].call.name = "raw_command"
    /\ Return(t, Ok("lines", th[t].lines))
    /\ UNCHANGED <<session, env, hist, ncalls>>

\* ---- get_hits, get_status
\* hits = self.bp_hits.copy()
GetHits(t) ==
    /\ Enter(t, [At(NewCall("get_hits"), "hits_reset") EXCEPT !.hits = bp_hits])
    /\ UNCHANGED <<session, env, hist>>

\* GetHitsReset that leaves the hit log as it is: the hits stay buffered.
GetHitsReset_NoClear(t) ==
    /\ th[t].pc = "hits_reset"
    /\ delivered' = delivered \cup Timestamps(th[t].hits)
    /\ drained_at' = clock
    /\ Return(t, Ok("hits", [hits |-> th[t].hits, count |-> Len(th[t].hits)]))
    /\ UNCHANGED <<session, env, discarded, arrived, ncalls>>

\* self.bp_hits = [], and the return.
GetHitsReset(t) ==
    /\ th[t].pc = "hits_reset"
    /\ bp_hits' = <<>>
    /\ delivered' = delivered \cup Timestamps(th[t].hits)
    /\ drained_at' = clock
    /\ Return(t, Ok("hits", [hits |-> th[t].hits, count |-> Len(th[t].hits)]))
    /\ UNCHANGED <<process, running, output_queue, breakpoints, attached_pid, lock,
                   env, discarded, arrived, ncalls>>

\* The dict of get_status, were all its fields read at once.
Status ==
    [running |-> process # None,
     attached_pid |-> attached_pid,
     breakpoints |-> {breakpoints[n] : n \in DOMAIN breakpoints},
     pending_hits |-> Len(bp_hits)]

\* "running": self.process is not None
GetStatus(t) ==
    /\ Enter(t, [At(NewCall("get_status"), "status_attached")
                    EXCEPT !.status.running = Status.running])
    /\ UNCHANGED <<session, env, hist>>

\* "attached_pid": self.attached_pid
GetStatusAttached(t) ==
    /\ th[t].pc = "status_attached"
    /\ th' = [th EXCEPT ![t].pc = "status_breakpoints",
                        ![t].status.attached_pid = Status.attached_pid]
    /\ UNCHANGED <<session, env, hist, ncalls>>

\* "breakpoints": list(self.breakpoints.values())
GetStatusBreakpoints(t) ==
    /\ th[t].pc = "status_breakpoints"
    /\ th' = [th EXCEPT ![t].pc = "status_hits",
                        ![t].status.breakpoints = Status.breakpoints]
    /\ UNCHANGED <<session, env, hist, ncalls>>

\* GetStatusHits that empties the hit log it has counted.
GetStatusHits_Draining(t) ==
    /\ th[t].pc = "status_hits"
    /\ bp_hits' = <<>>
    /\ Return(t, Ok("status", [th[t].status EXCEPT !.pending_hits = Status.pending_hits]))
    /\ UNCHANGED <<process, running, output_queue, breakpoints, attached_pid, lock,
                   env, hist, ncalls>>

\* "pending_hits": len(self.bp_hits), and the return of the dict.
GetStatusHits(t) ==
    /\ th[t].pc = "status_hits"
    /\ Return(t, Ok("status", [th[t].status EXCEPT !.pending_hits = Status.pending_hits]))
    /\ UNCHANGED <<session, env, hist, ncalls>>

\* -------------------------------------------------------- specification
\* start and stop.
Lifecycle(t) ==
    \/ StartCheck(t) \/ StartSpawn(t) \/ StartFail(t) \/ StartDrain(t)
    \/ StopCheck(t) \/ StopWrite(t) \/ StopWaited(t) \/ StopKill(t)
    \/ StopReset(t) \/ StopResetAttached(t) \/ StopResetBreakpoints(t)
    \/ StopResetHits(t) \/ StopReturn(t)

\* _send_command.
Correlator(t) == SendEnter(t) \/ SendWrite(t) \/ SendCollect(t) \/ SendTimeout(t)

\* A thread begins a facade call.
Invoke(t) ==
    \/ StartCheck(t) \/ StopCheck(t)
    \/ Attach(t) \/ Detach(t)
    \/ SetBreakpoint(t) \/ DeleteBreakpoint(t)
    \/ Plain(t) \/ ReadMemory(t) \/ RawCommand(t)
    \/ GetHits(t) \/ GetStatus(t)

\* A thread goes on with the call it is in.
Step(t) ==
    \/ StartSpawn(t) \/ StartFail(t) \/ StartDrain(t)
    \/ StopWrite(t) \/ StopWaited(t) \/ StopKill(t)
    \/ StopReset(t) \/ StopResetAttached(t) \/ StopResetBreakpoints(t)
    \/ StopResetHits(t) \/ StopReturn(t)
    \/ SendEnter(t) \/ SendWrite(t) \/ SendCollect(t) \/ SendTimeout(t)
    \/ AttachFinish(t) \/ DetachFinish(t)
    \/ SetBreakpointFinish(t) \/ DeleteBreakpointFinish(t)
    \/ PlainFinish(t) \/ ReadMemoryFinish(t) \/ RawCommandFinish(t)
    \/ GetHitsReset(t)
    \/ GetStatusAttached(t) \/ GetStatusBreakpoints(t) \/ GetStatusHits(t)

\* A subprocess exits or dies; a reader thread runs.
Background ==
    \E p \in Procs :
        \/ GdbExit(p) \/ GdbDie(p)
        \/ ReaderCheck(p) \/ ReaderRead(p) \/ ReaderEof(p)

\* A subprocess answers a command.
Replies == \E p \in Procs : GdbReply(p)

\* GDB's asynchronous lines.
Stopped == \E p \in Procs : GdbStopped(p)
Notify == \E p \in Procs : GdbNotify(p)

AllIdle == \A t \in Threads : th[t].pc = "idle"

\* Every operation, called by concurrent threads.
Next ==
    \/ \E t \in Threads : Invoke(t) \/ Step(t)
    \/ Background \/ Replies \/ Stopped \/ Notify
Spec == Init /\ [][Next]_vars

\* Every operation, one call at a time (the callers do not overlap; the reader
\* threads and the subprocesses run beside them).
NextSeq ==
    \/ \E t \in Threads : (AllIdle /\ Invoke(t)) \/ Step(t)
    \/ Background \/ Replies \/ Stopped \/ Notify
SpecSeq == Init /\ [][NextSeq]_vars

\* Concurrent callers of start, stop, attach and detach.
NextCmd ==
    \/ \E t \in Threads :
          \/ Lifecycle(t) \/ Correlator(t)
          \/ Attach(t) \/ AttachFinish(t) \/ Detach(t) \/ DetachFinish(t)
    \/ Background \/ Replies \/ Stopped
SpecCmd == Init /\ [][NextCmd]_vars

\* Concurrent callers of start, stop and attach under a fair scheduler: a thread
\* that can enter the lock, or holds it, goes on running, and the time of the
\* timeout passes.
NextLock ==
    \/ \E t \in Threads :
          \/ Lifecycle(t) \/ Correlator(t)
          \/ Attach(t) \/ AttachFinish(t)
    \/ Background \/ Replies \/ Notify
FairLock ==
    \A t \in Threads :
        /\ WF_vars(SendEnter(t))
        /\ WF_vars(SendWrite(t))
        /\ WF_vars(SendTimeout(t))
SpecLock == Init /\ [][NextLock]_vars /\ FairLock

\* Concurrent callers of start, stop, set_breakpoint and delete_breakpoint.
NextBp ==
    \/ \E t \in Threads :
          \/ Lifecycle(t) \/ Correlator(t)
          \/ SetBreakpoint(t) \/ SetBreakpointFinish(t)
          \/ DeleteBreakpoint(t) \/ DeleteBreakpointFinish(t)
    \/ Background \/ Replies \/ Notify
SpecBp == Init /\ [][NextBp]_vars

\* Concurrent callers of start, stop, get_hits and get_status.
NextHits ==
    \/ \E t \in Threads :
          \/ Lifecycle(t) \/ GetHits(t) \/ GetHitsReset(t)
          \/ GetStatus(t) \/ GetStatusAttached(t) \/ GetStatusBreakpoints(t)
          \/ GetStatusHits(t)
    \/ Background \/ Stopped
SpecHits == Init /\ [][NextHits]_vars

\* ---- _parse_result on its own
\* The fields a result record is made of.
FieldPairs == {<<"number", 1>>, <<"number", 2>>, <<"msg", "error">>, <<"msg", "denied">>}
FieldLists == UNION {[1..n -> FieldPairs] : n \in 0..MaxFields}
\* The words after the "^" of a result record; "connected" is one _parse_result
\* does not know.
RecordWords == {"done", "error", "running", "connected"}

\* The result record with this word and these fields.
Record(word, fields) ==
    LET i == FirstOf({k \in 1..Len(fields) : fields[k][1] = "number"}) IN
    [Line("^", word, 0, IF i = 0 THEN None ELSE fields[i][2], "", None, 0)
        EXCEPT !.fields = fields]

\* The lines of a list: result records and a notification.
ParseLines == {Record(w, f) : w \in RecordWords, f \in FieldLists} \cup {NotifyLine(1, 0)}
\* The lists _parse_result is called with.
ParseInputs == UNION {[1..n -> ParseLines] : n \in 0..MaxLines}

\* A caller holds a list of lines and is about to call _parse_result.
InitParse ==
    /\ \E ls \in ParseInputs :
          th = [t \in Threads |-> IF t = 1 THEN [Idle EXCEPT !.pc = "interpret", !.lines = ls]
                                  ELSE Idle]
    /\ process = None
    /\ running = FALSE
    /\ output_queue = <<>>
    /\ breakpoints = <<>>
    /\ bp_hits = <<>>
    /\ attached_pid = None
    /\ lock = None
    /\ ncalls = 0
    /\ gdb = [p \in Procs |-> [state |-> "unborn", stdin |-> <<>>, stdout |-> <<>>, nbp |-> 0]]
    /\ reader = [p \in Procs |-> [pc |-> "off", target |-> None]]
    /\ nprocs = 0
    /\ nevents = 0
    /\ clock = 0
    /\ delivered = {}
    /\ discarded = {}
    /\ drained_at = 0
    /\ arrived = <<>>

\* success, msg, data = self._parse_result(lines)
Interpret(t) ==
    /\ th[t].pc = "interpret"
    /\ th' = [th EXCEPT ![t].pc = "interpreted", ![t].result = ParseResult(th[t].lines)]
    /\ UNCHANGED <<session, env, hist, ncalls>>

NextParse == \E t \in Threads : Interpret(t)
SpecParse == InitParse /\ [][NextParse]_vars

\* ================================================================ claims
\* The positions of _send_command inside its with-block: before the write, and
\* between the write and the end of the wait (the command is in flight).
InLock == {"send_write", "send_collect"}
InFlight(t) == th[t].pc = "send_collect"

\* C1: at most one command is in flight across all callers of _send_command: no
\* thread is inside the with-block of _send_command (about to write its command,
\* or waiting for its result) while another thread is, and the thread inside it
\* holds the lock; so a command is written only after the previous wait ended.
C1_OneCommandInFlight ==
    \A t \in Threads :
        th[t].pc \in InLock =>
            /\ lock = t
            /\ \A u \in Threads \ {t} : th[u].pc \notin InLock

\* C1's case: one caller's command is in flight while a second caller, past its
\* liveness check, is waiting to send its own.
C1_Witness ==
    \E t, u \in Threads :
        /\ t # u
        /\ InFlight(t)
        /\ th[u].pc = "send"
        /\ process # None

\* C2: the lines collected for a command call contain no line GDB wrote in
\* response to a call that ran concurrently with it.
C2_NoInterleaving ==
    \A t \in Threads :
        \A i \in 1..Len(th[t].lines) :
            th[t].lines[i].cid \notin th[t].call.peers

\* The thread that runs the call begun in this step, and the call's name.
Invokes(t) == Free(t) /\ ncalls' = ncalls + 1
InvokedName(t) == IF th'[t].pc = "idle" THEN th'[t].ret.call.name ELSE th'[t].call.name
\* Thread t's call ends in this step: it returns, or raises.
Ends(t, name) == th[t].pc # "idle" /\ th[t].call.name = name /\ th'[t].pc = "idle"

\* C3: a stop() that found a process handle returns the stopped status, and when
\* it returns the process handle is absent, the attachment target absent, the
\* breakpoint table empty and the hit log empty, on each of its paths: the
\* subprocess exited in time (graceful), it was killed after the grace period
\* (forced), the exit command could not be written (undelivered). (stop() ends
\* otherwise only by raising, when another stop() took the handle away.)
C3_StopClears ==
    [][\A t \in Threads :
          Ends(t, "stop") =>
              \/ /\ th'[t].ret.tag = "ok"
                 /\ th'[t].ret.msg = "stopped"
                 /\ th[t].call.path \in {"graceful", "forced", "undelivered"}
                 /\ process' = None
                 /\ attached_pid' = None
                 /\ breakpoints' = <<>>
                 /\ bp_hits' = <<>>
              \/ /\ th'[t].ret.tag = "fault"
                 /\ process = None]_vars

\* C4: start() called while a process handle exists returns AlreadyRunning,
\* spawns no subprocess and no reader thread, and leaves the handle and the rest
\* of the session state as they were.
C4_StartWhileRunning ==
    [][\A t \in Threads :
          (Invokes(t) /\ InvokedName(t) = "start" /\ process # None) =>
              /\ th'[t].pc = "idle"
              /\ th'[t].ret.tag = "error"
              /\ th'[t].ret.msg = "GDB already running"
              /\ UNCHANGED <<session, gdb, reader, nprocs>>]_vars

\* C4's case: start() has returned AlreadyRunning and the session is live.
C4_Witness ==
    \E t \in Threads :
        /\ th[t].pc = "idle"
        /\ th[t].ret.call.name = "start"
        /\ th[t].ret.msg = "GDB already running"
        /\ process # None
        /\ nprocs = 1

\* No subprocess is written to in this step.
NoWrite == \A p \in Procs : gdb'[p].stdin = gdb[p].stdin

\* C5 as stated: read_memory with size > 4096 writes nothing and returns
\* SizeLimitExceeded, in every session state.
C5_Original ==
    [][\A t \in Threads :
          (Invokes(t) /\ InvokedName(t) = "read_memory"
                      /\ th'[t].ret.call.size > MaxReadSize) =>
              /\ th'[t].pc = "idle"
              /\ th'[t].ret.msg = "Size exceeds maximum (4096 bytes)"
              /\ NoWrite]_vars

\* C5, amended: read_memory with size > 4096 returns at once and writes nothing;
\* it returns SizeLimitExceeded when a process handle exists, and NotStarted when
\* none does.
C5_SizeLimit ==
    [][\A t \in Threads :
          (Invokes(t) /\ InvokedName(t) = "read_memory"
                      /\ (IF th'[t].pc = "idle" THEN th'[t].ret.call.size
                                                ELSE th'[t].call.size) > MaxReadSize) =>
              /\ th'[t].pc = "idle"
              /\ th'[t].ret.tag = "error"
              /\ th'[t].ret.msg = IF process = None THEN "GDB not started"
                                  ELSE "Size exceeds maximum (4096 bytes)"
              /\ NoWrite
              /\ UNCHANGED session]_vars

\* C5's case: a read of more than 4096 bytes was refused on a live session.
C5_Witness ==
    \E t \in Threads :
        /\ th[t].pc = "idle"
        /\ th[t].ret.call.name = "read_memory"
        /\ th[t].ret.call.size > MaxReadSize
        /\ th[t].ret.msg = "Size exceeds maximum (4096 bytes)"
        /\ process # None

Ascending(log) ==
    \A i, j \in 1..Len(log) : i < j => log[i].timestamp < log[j].timestamp

InDrain == UNION {Timestamps(th[t].hits) : t \in Threads}

\* C7: no appended hit is lost: every hit ever appended is still in the hit log,
\* or in the copy of a drain that is about to return it, or was returned by a
\* drain, or was cleared by stop().
C7_NoHitLost ==
    \A ts \in 1..clock :
        ts \in Timestamps(bp_hits) \cup InDrain \cup delivered \cup discarded

\* Thread t writes its command in this step, to subprocess p.
Writes(t, p) ==
    /\ th[t].pc = "send_write"
    /\ th'[t].pc = "send_collect"
    /\ process = p

\* The address with the marker before it.
Starred(address) == <<"*">> \o address

\* C8: set_breakpoint sends -break-insert with "*" followed by the address (the
\* address as it is when it starts with "*"); when it reports success the table
\* has exactly one entry more, and the new entry holds the address as given.
C8_SetBreakpoint ==
    [][\A t \in Threads :
          /\ \A p \in Procs :
                (Writes(t, p) /\ th[t].call.name = "set_breakpoint") =>
                    LET sent == gdb'[p].stdin[Len(gdb'[p].stdin)]
                        a == th[t].call.address
                    IN /\ sent.verb = "-break-insert"
                       /\ sent.hw = th[t].call.hardware
                       /\ sent.arg = IF a[1] = "*" THEN a ELSE Starred(a)
          /\ (Ends(t, "set_breakpoint") /\ th'[t].ret.tag = "ok") =>
                \E n \in DOMAIN breakpoints' \ DOMAIN breakpoints :
                    /\ DOMAIN breakpoints' = DOMAIN breakpoints \cup {n}
                    /\ breakpoints'[n].address = th[t].call.address
                    /\ \A m \in DOMAIN breakpoints : breakpoints'[m] = breakpoints[m]]_vars

\* The result record that ends the lines, if any: its word, "" when there is none.
Outcome(ls) ==
    LET i == FirstOf({k \in 1..Len(ls) : ls[k].mark = "^"}) IN
    IF i = 0 THEN "" ELSE ls[i].word

\* C9: delete_breakpoint: when the command succeeded, the entry of that number
\* is gone and every other entry is as it was; when it failed (an error record,
\* or no result record within the timeout), for any number, an error is returned
\* and the table is as it was.
C9_DeleteBreakpoint ==
    [][\A t \in Threads :
          Ends(t, "delete_breakpoint") =>
              LET n == th[t].call.number IN
              IF Outcome(th[t].lines) \in {"done", "running"}
              THEN /\ th'[t].ret.tag = "ok"
                   /\ DOMAIN breakpoints' = DOMAIN breakpoints \ {n}
                   /\ \A m \in DOMAIN breakpoints' : breakpoints'[m] = breakpoints[m]
              ELSE /\ th'[t].ret.tag \in {"error", "fault"}
                   /\ breakpoints' = breakpoints]_vars

\* C9's case: a delete_breakpoint of a number the table does not hold has failed
\* on an error record, and the entry the table holds is still there.
C9_Witness ==
    \E t \in Threads :
        /\ th[t].pc = "idle"
        /\ th[t].ret.call.name = "delete_breakpoint"
        /\ th[t].ret.tag = "error"
        /\ th[t].ret.msg = "error"
        /\ th[t].ret.call.number \notin DOMAIN breakpoints
        /\ breakpoints # <<>>

\* The operations that check for a process handle first.
Checked == {"stop", "attach", "detach", "set_breakpoint", "delete_breakpoint",
            "continue_exec", "interrupt", "read_register", "read_memory", "raw_command"}
Unchecked == {"get_hits", "get_status"}

\* What an operation called with no process handle does, by the claim: it
\* returns the NotStarted failure at once, writes nothing, changes nothing.
RefusedNotStarted(t) ==
    /\ th'[t].pc = "idle"
    /\ th'[t].ret.tag = "error"
    /\ th'[t].ret.msg \in {"GDB not started", "GDB not running"}
    /\ NoWrite
    /\ UNCHANGED session

\* C10 as stated: every operation but start, called with no process handle,
\* returns NotStarted, writes nothing and changes nothing.
C10_Original ==
    [][\A t \in Threads :
          (Invokes(t) /\ InvokedName(t) \in Checked \cup Unchecked /\ process = None) =>
              RefusedNotStarted(t)]_vars

\* C10, amended: every operation but start, get_hits and get_status, called with
\* no process handle, returns NotStarted, writes nothing and changes nothing.
C10_LivenessChecked ==
    [][\A t \in Threads :
          (Invokes(t) /\ InvokedName(t) \in Checked /\ process = None) =>
              RefusedNotStarted(t)]_vars

\* C10's case: attach was refused after a stop() had removed the process handle.
C10_Witness ==
    \E t \in Threads :
        /\ th[t].pc = "idle"
        /\ th[t].ret.call.name = "attach"
        /\ th[t].ret.msg = "GDB not started"
        /\ process = None
        /\ nprocs = 1

\* The operations that interpret the result of their command.
Interpreting == {"attach", "detach", "set_breakpoint", "delete_breakpoint",
                 "continue_exec", "interrupt", "read_register", "read_memory"}

\* Thread t's wait ends in this step with no line taken: self.timeout elapsed.
TimesOut(t) ==
    /\ th[t].pc = "send_collect"
    /\ th'[t].pc = "finish"
    /\ output_queue' = output_queue

\* C11: when no result record arrives within the timeout, _send_command returns
\* the lines collected so far, none of them a result record; _parse_result makes
\* of them (False, "No result received", {}); and attach, detach, set_breakpoint,
\* delete_breakpoint, continue_exec, interrupt, read_register and read_memory
\* return that error and change no session state.
C11_NoResultReceived ==
    [][\A t \in Threads :
          /\ TimesOut(t) =>
                /\ th'[t].lines = th[t].lines
                /\ \A i \in 1..Len(th'[t].lines) : ~IsResult(th'[t].lines[i])
                /\ ParseResult(th'[t].lines) = Result(FALSE, "No result received", {}, {})
          /\ (\E name \in Interpreting : Ends(t, name) /\ th[t].pc = "finish"
                                                       /\ Outcome(th[t].lines) = "") =>
                /\ th'[t].ret.tag = "error"
                /\ th'[t].ret.msg = "No result received"
                /\ UNCHANGED session]_vars

\* C11's case: a set_breakpoint whose command got no result record has returned
\* the error, and the table is empty.
C11_Witness ==
    \E t \in Threads :
        /\ th[t].pc = "idle"
        /\ th[t].ret.call.name = "set_breakpoint"
        /\ th[t].ret.tag = "error"
        /\ th[t].ret.msg = "No result received"
        /\ process # None
        /\ breakpoints = <<>>

\* The lines hold a result record that _parse_result takes for success.
Succeeded(ls) == Outcome(ls) \in {"done", "running"}

\* C12: the attachment target follows the outcomes of attach and detach:
\* attach(pid) stores pid when its command succeeded and leaves the target as it
\* was otherwise; detach() with no target stored returns NotAttached and writes
\* nothing; detach() clears the target when its command succeeded and leaves it
\* otherwise; nothing else but stop() changes the target; and get_status returns
\* the target as it is.
C12_AttachmentTarget ==
    [][/\ \A t \in Threads :
            /\ Ends(t, "attach") =>
                  IF th[t].pc = "finish" /\ Succeeded(th[t].lines)
                  THEN attached_pid' = th[t].call.pid /\ th'[t].ret.tag = "ok"
                  ELSE attached_pid' = attached_pid /\ th'[t].ret.tag \in {"error", "fault"}
            /\ Ends(t, "detach") =>
                  IF th[t].pc = "finish" /\ Succeeded(th[t].lines)
                  THEN attached_pid' = None /\ th'[t].ret.tag = "ok"
                  ELSE attached_pid' = attached_pid /\ th'[t].ret.tag \in {"error", "fault"}
            /\ (Invokes(t) /\ InvokedName(t) = "detach"
                           /\ process # None /\ attached_pid = None) =>
                  /\ th'[t].pc = "idle"
                  /\ th'[t].ret.msg = "Not attached to any process"
                  /\ NoWrite
                  /\ UNCHANGED session
            /\ Ends(t, "get_status") => th'[t].ret.data.attached_pid = attached_pid
       /\ attached_pid' # attached_pid =>
            \E t \in Threads :
                \/ Ends(t, "attach") \/ Ends(t, "detach")
                \/ th[t].pc = "stop_reset_attached" /\ th'[t].pc # th[t].pc]_vars

\* C12's case: a detach whose command failed has returned the error, and the
\* target is still the pid an earlier attach stored.
C12_Witness ==
    \E t \in Threads :
        /\ th[t].pc = "idle"
        /\ th[t].ret.call.name = "detach"
        /\ th[t].ret.tag = "error"
        /\ th[t].ret.msg = "error"
        /\ attached_pid \in Pids

\* C13: no facade operation raises: whatever the state, the call of every thread
\* ended by returning a payload, never by an exception leaving the operation.
C13_NoUncaughtFault ==
    \A t \in Threads : th[t].ret.tag # "fault"

\* The lines that start with the "stopped" marker.
StoppedIn(ls) == {i \in 1..Len(ls) : IsStopped(ls[i])}

\* C14: a line that starts with the "stopped" marker is never put on the output
\* queue, so none is among the lines a command exchange collects.
C14_StoppedNotQueued ==
    /\ StoppedIn(output_queue) = {}
    /\ \A t \in Threads : StoppedIn(th[t].lines) = {}

\* The reader thread of subprocess p takes a line in this step, and the line.
Reads(p) == reader[p].pc = "read" /\ reader'[p].pc = "check"
LineRead(p) == Head(gdb[reader[p].target].stdout)

\* C15 as stated: every *stopped line the reader thread reads appends exactly
\* one record to the hit log, whatever its reason.
C15_Original ==
    [][\A p \in Procs :
          (Reads(p) /\ IsStopped(LineRead(p))) => Len(bp_hits') = Len(bp_hits) + 1]_vars

\* C15, amended: a *stopped line the reader thread reads appends exactly one
\* record to the hit log when its reason is breakpoint-hit, and nothing
\* otherwise; the record holds the line, the time of the parse and the bkptno of
\* the line, and a line with no bkptno still gets its record, with no number.
\* No other line changes the hit log.
C15_BreakpointHitsLogged ==
    [][\A p \in Procs :
          Reads(p) =>
              LET line == LineRead(p) IN
              IF IsStopped(line) /\ line.reason = "breakpoint-hit"
              THEN /\ Len(bp_hits') = Len(bp_hits) + 1
                   /\ \A i \in 1..Len(bp_hits) : bp_hits'[i] = bp_hits[i]
                   /\ bp_hits'[Len(bp_hits')].raw = line
                   /\ bp_hits'[Len(bp_hits')].bkptno = line.bkptno
                   /\ bp_hits'[Len(bp_hits')].timestamp = clock'
              ELSE bp_hits' = bp_hits]_vars

\* C15's case: the hit log holds the record of a breakpoint-hit line that had no
\* bkptno field.
C15_Witness ==
    \E i \in 1..Len(bp_hits) :
        /\ bp_hits[i].raw.reason = "breakpoint-hit"
        /\ bp_hits[i].raw.bkptno = None
        /\ bp_hits[i].bkptno = None

\* Thread t executes a statement of its call in this step.
Acts(t) == th'[t].pc # th[t].pc \/ th'[t].ret # th[t].ret

\* C16: get_status returns the process liveness, the attachment target, the
\* entries of the breakpoint table and the length of the hit log as they are,
\* and no statement of it changes anything of the session (the hit log is not
\* drained); on a session never started it returns not running, no target, no
\* breakpoints and zero pending hits.
C16_StatusSnapshot ==
    [][\A t \in Threads :
          /\ Ends(t, "get_status") =>
                /\ th'[t].ret.tag = "ok"
                /\ th'[t].ret.data = Status
                /\ nprocs = 0 => th'[t].ret.data = NoStatus
          /\ ((Invokes(t) /\ InvokedName(t) = "get_status")
                 \/ (th[t].call.name = "get_status" /\ Acts(t))) =>
                UNCHANGED <<session, gdb>>]_vars

\* C16's case: get_status has returned a count of one pending hit on a live
\* session, and the hit is still in the log.
C16_Witness ==
    \E t \in Threads :
        /\ th[t].pc = "idle"
        /\ th[t].ret.call.name = "get_status"
        /\ th[t].ret.data.running
        /\ th[t].ret.data.pending_hits = 1
        /\ Len(bp_hits) = 1

\* Thread t's start() stores the handle of a new subprocess in this step.
Spawns(t) == th[t].pc = "start_spawn" /\ th'[t].pc = "start_drain"

\* C17: over sequences of start and stop calls the session is running exactly
\* when the last lifecycle call that succeeded was start: a start that succeeds
\* returns the pid of the handle it leaves in place, a stop that succeeds leaves
\* no handle, the handle changes nowhere else; and a session begins (also after
\* a stop) with no attachment target, an empty breakpoint table and an empty
\* hit log.
C17_Lifecycle ==
    [][/\ \A t \in Threads :
            /\ (Ends(t, "start") /\ th'[t].ret.tag = "ok") =>
                  process' # None /\ th'[t].ret.data = process'
            /\ (Ends(t, "stop") /\ th'[t].ret.tag = "ok") => process' = None
            /\ Spawns(t) =>
                  /\ process = None /\ process' # None
                  /\ attached_pid' = None /\ breakpoints' = <<>> /\ bp_hits' = <<>>
       /\ process' # process =>
            \E t \in Threads : Spawns(t) \/ (th[t].pc = "stop_reset" /\ Acts(t))]_vars

\* C18: the lines collected for a command hold nothing GDB wrote in answer to
\* another command (one that timed out before, say): each line is an
\* asynchronous line or an answer to the command of this very call.
C18_StrayOutputAbsorbed ==
    \A t \in Threads :
        \A i \in 1..Len(th[t].lines) :
            th[t].lines[i].cid \in {0, th[t].call.id}

\* The positions of stop() between its first and its last assignment.
InReset == {"stop_reset_attached", "stop_reset_breakpoints", "stop_reset_hits"}

\* C19: stop() resets the session as one transition with respect to the other
\* facade calls: whenever there is no process handle (and no stop() is in the
\* middle of its four assignments) there is no attachment target and the
\* breakpoint table is empty.
C19_AtomicReset ==
    (process = None /\ \A t \in Threads : th[t].pc \notin InReset) =>
        (attached_pid = None /\ breakpoints = <<>>)

\* Thread t's stop() writes -gdb-exit to the subprocess in this step.
WritesExit(t) == th[t].pc = "stop_write" /\ th'[t].pc = "stop_wait"
\* Thread t's stop() executes self.process = None in this step.
ClearsHandle(t) == th[t].pc = "stop_reset" /\ th'[t].pc = "stop_reset_attached"

\* C20: stop() neither writes its exit command nor clears the process handle
\* while the command of another caller is in flight (between that caller's
\* write and the end of its wait).
C20_StopUnderExclusion ==
    [][\A t \in Threads :
          (WritesExit(t) \/ ClearsHandle(t)) =>
              \A u \in Threads \ {t} : ~InFlight(u)]_vars

\* The reader threads that are in readline().
Reading == {p \in Procs : reader[p].pc = "read"}

\* C21: a reader thread reads only the output of the subprocess it was started
\* for, and no two reader threads read the output of the same subprocess.
C21_OneReader ==
    /\ \A p \in Reading : reader[p].target = p
    /\ \A p, q \in Reading : reader[p].target = reader[q].target => p = q

\* No thread is in start() or stop().
NoLifecycleCall == \A t \in Threads : th[t].call.name \notin {"start", "stop"}

\* C27: once stop() has returned the hit log stays empty until the next start():
\* while there is no process handle and no start() or stop() is running, the hit
\* log is empty.
C27_NoHitAfterStop ==
    (process = None /\ NoLifecycleCall) => bp_hits = <<>>

\* The numbers of the result records in thread t's lines that answer its own
\* command.
OwnNumbers(t) ==
    {th[t].lines[k].num : k \in {j \in 1..Len(th[t].lines) :
        IsResult(th[t].lines[j]) /\ th[t].lines[j].cid = th[t].call.id}}

\* The keys of the breakpoint table whose entry the step makes or replaces.
Stored == {n \in DOMAIN breakpoints' : n \notin DOMAIN breakpoints \/ breakpoints'[n] # breakpoints[n]}

\* C26: an entry set_breakpoint stores is keyed by the number in the result
\* record of its own -break-insert command and carries that number; the key is
\* never taken from another line collected in the same response.
C26_KeyFromOwnResult ==
    [][\A t \in Threads : Ends(t, "set_breakpoint") =>
          \A n \in Stored : n \in OwnNumbers(t) /\ breakpoints'[n].number = n]_vars

\* Thread t is in the collection loop of _send_command.
Collecting(t) == th[t].pc = "send_collect"

\* The indices of the result records among lines.
ResultsIn(ls) == {k \in 1..Len(ls) : IsResult(ls[k])}

\* C22: the lines a collection holds, followed by the lines still queued, are
\* the lines that were queued since its discard step, in the order they were
\* queued; the list it returns ends with the first result record and holds no
\* other one, and holds none at all when the timeout ended it.
C22_CollectedInOrder ==
    [][\A t \in Threads : Collecting(t) =>
          /\ th[t].lines \o output_queue = arrived
          /\ ResultsIn(th[t].lines) = {}
          /\ th'[t].pc = "finish" =>
                /\ th'[t].lines \o output_queue' = arrived
                /\ ResultsIn(th'[t].lines) =
                      IF th'[t].lines = th[t].lines THEN {} ELSE {Len(th'[t].lines)}]_vars

\* Thread t holds what _parse_result returned for its lines.
Interpreted(t) == th[t].pc = "interpreted"

\* The values the fields give to key, in line order.
ValuesOf(fields, key) == SelectSeq(fields, LAMBDA pair : pair[1] = key)

\* C23: the result is decided by the first result record of the lines alone. No
\* record: failure "No result received". ^done: success "OK" with, for each key,
\* the value of its last field. ^running: success "Running", no data. ^error:
\* failure with the value of the msg field, "Unknown error" without one.
\* Another record: failure "Unknown result" with the line itself.
C23_Classification ==
    \A t \in Threads : Interpreted(t) =>
        LET ls == th[t].lines
            r == th[t].result
            R == ResultsIn(ls)
        IN IF R = {} THEN r = Result(FALSE, "No result received", {}, {})
           ELSE \E i \in R :
                  /\ \A j \in R : i <= j
                  /\ LET f == ls[i].fields
                         Keys == {f[k][1] : k \in 1..Len(f)}
                     IN CASE ls[i].word = "done" ->
                               /\ r.success /\ r.msg = "OK" /\ r.literal = {}
                               /\ {pair[1] : pair \in r.data} = Keys
                               /\ \A pair \in r.data :
                                     LET vs == ValuesOf(f, pair[1]) IN pair = vs[Len(vs)]
                          [] ls[i].word = "running" -> r = Result(TRUE, "Running", {}, {})
                          [] ls[i].word = "error" ->
                               /\ ~r.success /\ r.data = {} /\ r.literal = {}
                               /\ r.msg = IF "msg" \in Keys THEN ValuesOf(f, "msg")[1][2]
                                          ELSE "Unknown error"
                          [] OTHER -> r = Result(FALSE, "Unknown result", {}, {ls[i]})

\* C23's case: of a ^done record with two number fields followed by an ^error
\* record, the result is success with the second number.
C23_Witness ==
    \E t \in Threads :
        /\ Interpreted(t)
        /\ Len(th[t].lines) = 2
        /\ th[t].lines[1].word = "done"
        /\ th[t].lines[1].fields = <<<<"number", 1>>, <<"number", 2>>>>
        /\ th[t].lines[2].word = "error"
        /\ th[t].result = Result(TRUE, "OK", {<<"number", 2>>}, {})

\* C24: a stop() that found a process handle ends by returning the stopped
\* status, on one of its three paths (the subprocess exited in time, it was
\* killed after the grace period, it was killed because the exit command could
\* not be written), and no subprocess other than the current one is left alive.
C24_StopReportsStopped ==
    [][\A t \in Threads : Ends(t, "stop") =>
          /\ th'[t].ret.tag = "ok"
          /\ th'[t].ret.msg = "stopped"
          /\ th[t].call.path \in {"graceful", "forced", "undelivered"}
          /\ \A p \in Procs : gdb'[p].state = "alive" => p = process']_vars

\* C25: the lock is held only by a thread inside the with-block of
\* _send_command; a thread that holds it eventually releases it, whether a
\* result record came, the timeout elapsed or the write failed; and a thread
\* waiting to enter eventually enters (or finds the process handle gone).
C25_LockReleased ==
    /\ [](lock # None => th[lock].pc \in InLock)
    /\ \A t \in Threads : (lock = t) ~> (lock # t)
    /\ \A t \in Threads : (th[t].pc = "send") ~> (th[t].pc # "send")

\* C25's case: a thread waits to enter while the holder's wait is about to
\* time out with nothing collected.
C25_Witness ==
    \E t, u \in Threads :
        /\ lock = t
        /\ th[t].pc = "send_collect"
        /\ th[t].lines = <<>>
        /\ output_queue = <<>>
        /\ th[u].pc = "send"
====
